---------------------------- MODULE Spec2Model ----------------------------
(***************************************************************************)
(* Session and artifact state of the MythosQA App component (src/App.tsx,  *)
(* first App definition, lines 13-457) together with the controls of       *)
(* TestPlanDisplay, Sidebar and HeroInput that invoke its handlers.        *)
(*                                                                         *)
(* React state is modelled as the variables below.  An async handler is    *)
(* split at its await: the part before the await is one action, which also *)
(* records the closure the continuation will run with (the values of       *)
(* testPlan, savedSessions, currentSessionId, url, testData of the render  *)
(* the handler was created in), and the continuation is a second action.   *)
(*                                                                         *)
(* Objects that the handlers mutate in place are kept in a heap: a plan    *)
(* value holds a reference to its suites array, { ...testPlan } copies the *)
(* reference, and an assignment through it is seen by every holder.        *)
(* localStorage holds what JSON.stringify produced: values, no references. *)
(*                                                                         *)
(* Suite and case indices are 0-based as in the source; the k-th element   *)
(* of a JavaScript array a is a[k + 1] here.  A session id is the number   *)
(* Date.now() returned; toString() is injective on it.                     *)
(***************************************************************************)
EXTENDS Integers, Sequences, FiniteSets, TLC

VARIABLES
    state,                      \* App.tsx:14
    url,                        \* App.tsx:15
    requirements,               \* App.tsx:16
    testData,                   \* App.tsx:17
    artifactScope,              \* App.tsx:18
    testPlan,                   \* App.tsx:19
    error,                      \* App.tsx:20
    generatingMoreSuiteIndex,   \* App.tsx:22
    savedSessions,              \* App.tsx:23
    currentSessionId,           \* App.tsx:25
    storage,                    \* localStorage['mythos_saved_sessions']
    heap,                       \* suites arrays reachable from plan objects
    clock,                      \* the value Date.now() returns
    pending,                    \* backend calls awaiting their result
    alertMsg,                   \* message of the alert() raised by the last step
    started,                    \* number of backend calls issued so far
    edits,                      \* number of edits, saves and deletes made so far
    selectedCaseInfo,           \* TestPlanDisplay.tsx:195, the case of the open regenerate modal
    filter,                     \* TestPlanDisplay.tsx:189
    sortOrder,                  \* TestPlanDisplay.tsx:190
    mounted,                    \* the component tree of App is rendered
    quotaExceeded,              \* localStorage.setItem throws
    currentUser,                \* Sidebar.tsx:142, the id of the active user
    ownedSessions,              \* the session collection, each session with its owner
    listed,                     \* the sessions last listed for the active user
    item,                       \* TestCaseCard.tsx:31, the item a TestDataRow shows
    isVisible,                  \* TestCaseCard.tsx:32
    toggles,                    \* number of clicks on the show/hide button of the row
    exported,                   \* the test data cell last written by an export
    mode,                       \* AuthScreen.tsx:13
    step,                       \* AuthScreen.tsx:14
    email,                      \* AuthScreen.tsx:16
    password,                   \* AuthScreen.tsx:17
    verificationCode,           \* AuthScreen.tsx:20
    userEnteredCode,            \* AuthScreen.tsx:21
    authError,                  \* AuthScreen.tsx:23, the error of AuthScreen
    successMsg,                 \* AuthScreen.tsx:24
    users,                      \* localStorage['mythos_users']
    onLogin                     \* the users onLogin was called with, in order

vars == << state, url, requirements, testData, artifactScope, testPlan, error,
           generatingMoreSuiteIndex, savedSessions, currentSessionId, storage,
           heap, clock, pending, alertMsg, started, edits, selectedCaseInfo,
           filter, sortOrder, mounted, quotaExceeded, currentUser, ownedSessions,
           listed, item, isVisible, toggles, exported, mode, step, email,
           password, verificationCode, userEnteredCode, authError, successMsg,
           users, onLogin >>

\* The state of App and of TestPlanDisplay.
appVars == << state, url, requirements, testData, artifactScope, testPlan, error,
              generatingMoreSuiteIndex, savedSessions, currentSessionId, storage,
              heap, clock, pending, alertMsg, started, edits, selectedCaseInfo,
              filter, sortOrder, mounted >>

\* The state of a TestDataRow and the output of the exports.
rowVars == << item, isVisible, toggles, exported >>

\* The active user and the sessions listed for them.
ownerVars == << currentUser, ownedSessions, listed >>

\* The state of AuthScreen, the stored users and the calls of onLogin.
authVars == << mode, step, email, password, verificationCode, userEnteredCode,
               authError, successMsg, users, onLogin >>

\* What lies outside App and its handlers do not touch.
otherVars == << rowVars, quotaExceeded, ownerVars, authVars >>

\* All but the state of a TestDataRow, all but the quota, all but the owners.
exceptRow == << appVars, quotaExceeded, ownerVars, authVars >>
exceptQuota == << appVars, rowVars, ownerVars, authVars >>
exceptOwner == << appVars, rowVars, quotaExceeded, authVars >>
exceptAuth == << appVars, rowVars, quotaExceeded, ownerVars >>

----------------------------------------------------------------------------
(* Bounds of the model *)

MaxAsync == 3
MaxClock == 3
MaxEdits == 1

----------------------------------------------------------------------------
(* Values *)

Null == << >>
Some(x) == << x >>
NoId == 0
NoIndex == -1
NoText == "null"

Urls == {"u1", "u2"}
Hostname(u) == IF u = "u1" THEN "h1" ELSE "h2"
UserNames == {"n1"}
\* What the user submits in HeroInput: a url, with or without credentials.
AnalyzeInputs == { << "u1", "none" >>, << "u2", "d1" >> }
\* What the user submits in TestDataForm: test data and an artifact scope.
GenerateInputs == { << "d1", "CASES_ONLY" >> }
AnalysisResults == {"r1"}
\* The content a user edit gives a case.
EditRevs == {1}

Case(i, r) == [id |-> i, rev |-> r]

\* The suites a generation backend answers with: two suites.
PlanResponses == { << [cases |-> << Case(3, 0) >>], [cases |-> << Case(3, 0) >>] >> }

\* The case lists the generate-more backend answers with.
MoreResponses == { << Case(2, 0) >> }

\* The cases the regenerate backend answers with.
RegenResponses == { Case(1, 2) }


----------------------------------------------------------------------------
(* Plans, sessions and their serialised form *)

\* A plan object: its top-level fields and the reference to its suites array.
Plan(u, ref) == [websiteUrl |-> u, suites |-> ref]

\* plan.suites[suiteIndex].cases, read through heap h; plan is Some(p).
SuiteCases(h, plan, suiteIndex) == h[plan[1].suites][suiteIndex + 1].cases

NumSuites(h, plan) == Len(h[plan[1].suites])

\* What JSON.stringify writes for a plan: the suites themselves.
PlanValue(h, plan) ==
    IF plan = Null THEN Null
    ELSE Some([websiteUrl |-> plan[1].websiteUrl, suites |-> h[plan[1].suites]])

SessionValue(h, s) == [s EXCEPT !.plan = PlanValue(h, s.plan)]

\* JSON.stringify(sessions)
Stringify(h, sessions) == [k \in 1..Len(sessions) |-> SessionValue(h, sessions[k])]

\* sessions.findIndex(s => s.id === id), 0-based, -1 when absent
FindIndex(sessions, id) ==
    IF \E k \in 1..Len(sessions) : sessions[k].id = id
    THEN (CHOOSE k \in 1..Len(sessions) :
             /\ sessions[k].id = id
             /\ \A j \in 1..(k - 1) : sessions[j].id # id) - 1
    ELSE -1

\* sessions.find(s => s.id === id): Some(session), or Null for undefined
Find(sessions, id) ==
    IF FindIndex(sessions, id) >= 0 THEN Some(sessions[FindIndex(sessions, id) + 1])
    ELSE Null

HasId(sessions, id) == FindIndex(sessions, id) >= 0

Remove(seq, k) == [j \in 1..(Len(seq) - 1) |-> IF j < k THEN seq[j] ELSE seq[j + 1]]

\* persistSessionUpdate with a fault: an existing session is moved to the front
\* instead of being replaced where it stands.
PersistMoveToFront(prev, updatedSession) ==
    << updatedSession >> \o SelectSeq(prev, LAMBDA s : s.id # updatedSession.id)

\* The updater of persistSessionUpdate: the next value of savedSessions.
PersistSessionUpdate(prev, updatedSession) ==
    LET exists == FindIndex(prev, updatedSession.id)
    IN  IF exists >= 0
        THEN [prev EXCEPT ![exists + 1] = updatedSession]
        ELSE << updatedSession >> \o prev

\* What persistSessionUpdate hands to localStorage.setItem.
PersistSaved(h, prev, updatedSession) ==
    Stringify(h, PersistSessionUpdate(prev, updatedSession))

\* savedSessions.filter(s => s.id !== sessionId)
DeleteFilter(sessions, sessionId) == SelectSeq(sessions, LAMBDA s : s.id # sessionId)

\* handleDeleteSession with a fault: the unfiltered collection is saved.
DeleteSavedUnfiltered(h, sessions, sessionId) == Stringify(h, sessions)

\* What handleDeleteSession hands to localStorage.setItem.
DeleteSaved(h, sessions, sessionId) == Stringify(h, DeleteFilter(sessions, sessionId))

----------------------------------------------------------------------------
(* Bookkeeping records *)

\* A backend call in flight with the closure its continuation reads.
Call(kind) ==
    [kind |-> kind, testPlan |-> Null, savedSessions |-> << >>,
     currentSessionId |-> NoId, suiteIndex |-> NoIndex, caseIndex |-> NoIndex,
     data |-> "none", scope |-> "ALL", url |-> "", newSession |-> Null,
     edited |-> 0]

\* The session a call writes to when it returns.
TargetId(c) == IF c.kind = "analyze" THEN c.newSession[1].id ELSE c.currentSessionId

\* Generate-more calls for a suite index remember the suites array in which a
\* case of that suite was last replaced while they were in flight (0: none).
MarkEdited(calls, suiteIndex, ref) ==
    [k \in 1..Len(calls) |->
        IF calls[k].kind = "more" /\ calls[k].suiteIndex = suiteIndex
        THEN [calls[k] EXCEPT !.edited = ref] ELSE calls[k]]

\* Suites with a generate-more call issued and not yet returned.
InFlight == { pending[k].suiteIndex : k \in { j \in 1..Len(pending) : pending[j].kind = "more" } }

\* Suites TestPlanDisplay shows as generating.
Reported == IF generatingMoreSuiteIndex = NoIndex THEN {} ELSE { generatingMoreSuiteIndex }

----------------------------------------------------------------------------
(* Initial state: after the mount effect has loaded localStorage *)

StoredPlan(u) ==
    Some([websiteUrl |-> u,
          suites |-> << [cases |-> << Case(1, 0) >>], [cases |-> << Case(1, 0) >>] >>])

StoredSession(i, u) ==
    [id |-> i, name |-> Hostname(u), timestamp |-> i, url |-> u, plan |-> StoredPlan(u),
     testData |-> "none", requirements |-> "r1", artifactScope |-> "ALL"]

\* Contents of localStorage left by an earlier run: one finished session.
InitialStorages == { << StoredSession(1, "u1") >> }

\* JSON.parse builds fresh objects: one suites array per stored plan.
ParseHeap(stored) == [k \in 1..Len(stored) |-> stored[k].plan[1].suites]
ParseSessions(stored) ==
    [k \in 1..Len(stored) |-> [stored[k] EXCEPT !.plan = Some(Plan(stored[k].url, k))]]

\* The state the mount effect leaves, but for the count of backend calls made.
Mounted ==
    /\ storage \in InitialStorages
    /\ savedSessions = ParseSessions(storage)
    /\ heap = ParseHeap(storage)
    /\ state = "IDLE"
    /\ url = ""
    /\ requirements = NoText
    /\ testData = "none"
    /\ artifactScope = "ALL"
    /\ testPlan = Null
    /\ error = NoText
    /\ generatingMoreSuiteIndex = NoIndex
    /\ currentSessionId = NoId
    /\ clock = 2
    /\ pending = << >>
    /\ alertMsg = NoText
    /\ edits = 0
    /\ selectedCaseInfo = Null
    /\ filter = "ALL"
    /\ sortOrder = "DEFAULT"
    /\ mounted = TRUE

\* No TestDataRow is mounted and nothing has been exported.
NoRow ==
    /\ item = Null
    /\ isVisible = FALSE
    /\ toggles = 0
    /\ exported = Null

\* Nobody is logged in and nothing is listed.
NoOwner ==
    /\ currentUser = ""
    /\ ownedSessions = << >>
    /\ listed = << >>

\* AuthScreen as mounted (AuthScreen.tsx:13-24), no user registered yet and
\* onLogin not yet called.
NoAuth ==
    /\ mode = "LOGIN"
    /\ step = "CREDENTIALS"
    /\ email = ""
    /\ password = ""
    /\ verificationCode = ""
    /\ userEnteredCode = ""
    /\ authError = NoText
    /\ successMsg = NoText
    /\ users = << >>
    /\ onLogin = << >>

\* localStorage has room, and no user is known.
Offstage == quotaExceeded = FALSE /\ NoOwner /\ NoAuth

\* Nothing but App is on screen.
Aside == NoRow /\ Offstage

Init == Mounted /\ started = 0 /\ Aside

----------------------------------------------------------------------------
(* Building blocks of the handlers *)

\* TestPlanDisplay keeps the state of its modal while it stays mounted, that
\* is while App renders it: state DISPLAY with a plan (App.tsx:425).
KeepModal ==
    selectedCaseInfo' = IF state' = "DISPLAY" /\ testPlan' # Null
                        THEN selectedCaseInfo ELSE Null

\* The filter and the sort order are state of TestPlanDisplay too.
KeepView ==
    /\ filter' = IF state' = "DISPLAY" /\ testPlan' # Null THEN filter ELSE "ALL"
    /\ sortOrder' = IF state' = "DISPLAY" /\ testPlan' # Null THEN sortOrder ELSE "DEFAULT"

\* What every handler of App leaves alone.
Elsewhere == KeepModal /\ KeepView /\ UNCHANGED otherVars

\* persistSessionUpdate(s): the store and localStorage after the updater ran.
\* heap' is the heap the handler leaves; JSON.stringify reads through it.
\* When setItem throws, the updater throws in the render: the store keeps its
\* value and React, with no error boundary around App, takes the tree down.
Persist(s) ==
    IF quotaExceeded
    THEN /\ savedSessions' = savedSessions
         /\ storage' = storage
         /\ mounted' = FALSE
    ELSE /\ savedSessions' = PersistSessionUpdate(savedSessions, s)
         /\ storage' = PersistSaved(heap', savedSessions, s)
         /\ mounted' = mounted

NoPersist == UNCHANGED << savedSessions, storage, mounted >>

\* { ...session, ...changes }
Spread(session, changes) ==
    [f \in DOMAIN session |-> IF f \in DOMAIN changes THEN changes[f] ELSE session[f]]

\* "if (currentSessionId) { currentSession = savedSessions.find(...);
\*  if (currentSession) persistSessionUpdate({ ...currentSession, ...changes }) }"
\* with the currentSessionId and savedSessions of the given closure.
AutoUpdate(id, sessions, changes) ==
    IF id # NoId /\ Find(sessions, id) # Null
    THEN Persist(Spread(Find(sessions, id)[1], changes))
    ELSE NoPersist

\* The state updates of handleReset.
ResetView ==
    /\ state' = "IDLE"
    /\ url' = ""
    /\ requirements' = NoText
    /\ testData' = "none"
    /\ artifactScope' = "ALL"
    /\ testPlan' = Null
    /\ error' = NoText
    /\ currentSessionId' = NoId

\* The session handleAnalyze creates.
NewSession(inputUrl, initialData) ==
    [id |-> clock, name |-> Hostname(inputUrl), timestamp |-> clock, url |-> inputUrl,
     plan |-> Null, testData |-> initialData, requirements |-> NoText,
     artifactScope |-> "ALL"]

\* handleAnalyze up to its await, but for requirements, artifactScope and testPlan,
\* which it leaves as they are.
AnalyzeStart(inputUrl, initialData) ==
    /\ started < MaxAsync
    /\ state' = "ANALYZING"
    /\ url' = inputUrl
    /\ error' = NoText
    /\ testData' = initialData
    /\ currentSessionId' = clock
    /\ heap' = heap
    /\ Persist(NewSession(inputUrl, initialData))
    /\ pending' = Append(pending,
                    [Call("analyze") EXCEPT !.newSession = Some(NewSession(inputUrl, initialData))])
    /\ started' = started + 1
    /\ alertMsg' = NoText
    /\ UNCHANGED << generatingMoreSuiteIndex, clock, edits >>
    /\ selectedCaseInfo' = Null
    /\ KeepView /\ UNCHANGED otherVars

\* An element of an array that was never assigned.
Hole == Case(0, 0)

\* a[index] = x on a JavaScript array: an index past the end lengthens the
\* array, the elements in between are holes.
ArraySet(a, index, x) ==
    IF index < Len(a)
    THEN [a EXCEPT ![index + 1] = x]
    ELSE a \o [k \in 1..(index - Len(a)) |-> Hole] \o << x >>

\* The case write with a fault: the suite's cases are replaced by the new case.
WriteCaseAlone(h, plan, suiteIndex, caseIndex, newCase) ==
    [h EXCEPT ![plan[1].suites][suiteIndex + 1].cases = << newCase >>]

\* The plan a case write leaves: the same suites array with
\* suites[suiteIndex].cases[caseIndex] assigned.
WriteCase(h, plan, suiteIndex, caseIndex, newCase) ==
    [h EXCEPT ![plan[1].suites][suiteIndex + 1].cases = ArraySet(@, caseIndex, newCase)]

\* The plan an append leaves: suite.cases reassigned to [...cases, ...newCases].
AppendCases(h, plan, suiteIndex, newCases) ==
    [h EXCEPT ![plan[1].suites][suiteIndex + 1].cases = @ \o newCases]

----------------------------------------------------------------------------
(* Handlers that run to completion *)

\* Date.now() moves on between two events, or does not.
Tick ==
    /\ clock < MaxClock
    /\ clock' = clock + 1
    /\ alertMsg' = NoText
    /\ UNCHANGED << state, url, requirements, testData, artifactScope, testPlan, error,
                    generatingMoreSuiteIndex, savedSessions, currentSessionId, storage, mounted,
                    heap, pending, started, edits >>
    /\ Elsewhere

\* Header logo, Sidebar "new session", TestPlanDisplay onReset.
HandleReset ==
    /\ ResetView
    /\ alertMsg' = NoText
    /\ UNCHANGED << generatingMoreSuiteIndex, savedSessions, storage, mounted, heap, clock,
                    pending, started, edits >>
    /\ Elsewhere

\* TestPlanDisplay onEditConfig.
HandleEditConfig ==
    /\ state = "DISPLAY" /\ testPlan # Null
    /\ state' = "CONFIGURING"
    /\ alertMsg' = NoText
    /\ UNCHANGED << url, requirements, testData, artifactScope, testPlan, error,
                    generatingMoreSuiteIndex, savedSessions, currentSessionId, storage, mounted,
                    heap, clock, pending, started, edits >>
    /\ Elsewhere

\* TestDataForm onCancel.
CancelConfig ==
    /\ state = "CONFIGURING" /\ requirements # NoText
    /\ IF testPlan # Null
       THEN /\ state' = "DISPLAY"
            /\ UNCHANGED << url, requirements, testData, artifactScope, testPlan, error,
                            currentSessionId >>
       ELSE ResetView
    /\ alertMsg' = NoText
    /\ UNCHANGED << generatingMoreSuiteIndex, savedSessions, storage, mounted, heap, clock,
                    pending, started, edits >>
    /\ Elsewhere

\* The Dismiss button of the error banner.
DismissError ==
    /\ error # NoText
    /\ error' = NoText
    /\ alertMsg' = NoText
    /\ UNCHANGED << state, url, requirements, testData, artifactScope, testPlan,
                    generatingMoreSuiteIndex, savedSessions, currentSessionId, storage, mounted,
                    heap, clock, pending, started, edits >>
    /\ Elsewhere

\* A case edited in a TestCaseRow.
HandleUpdateTestCase(suiteIndex, caseIndex, updatedCase) ==
    /\ state = "DISPLAY" /\ testPlan # Null
    /\ edits < MaxEdits
    /\ edits' = edits + 1
    /\ heap' = WriteCase(heap, testPlan, suiteIndex, caseIndex, updatedCase)
    /\ testPlan' = testPlan
    /\ AutoUpdate(currentSessionId, savedSessions, [plan |-> testPlan])
    /\ pending' = MarkEdited(pending, suiteIndex, testPlan[1].suites)
    /\ alertMsg' = NoText
    /\ UNCHANGED << state, url, requirements, testData, artifactScope, error,
                    generatingMoreSuiteIndex, currentSessionId, clock, started >>
    /\ Elsewhere

\* TestPlanDisplay "save session".
HandleSaveSession(name) ==
    /\ state = "DISPLAY" /\ testPlan # Null
    /\ edits < MaxEdits
    /\ edits' = edits + 1
    /\ heap' = heap
    /\ IF currentSessionId = NoId
       THEN /\ currentSessionId' = clock
            /\ Persist([id |-> clock, name |-> name, timestamp |-> clock, url |-> url,
                        plan |-> testPlan, testData |-> testData,
                        requirements |-> requirements, artifactScope |-> artifactScope])
       ELSE /\ currentSessionId' = currentSessionId
            /\ AutoUpdate(currentSessionId, savedSessions, [name |-> name])
    /\ alertMsg' = NoText
    /\ UNCHANGED << state, url, requirements, testData, artifactScope, testPlan, error,
                    generatingMoreSuiteIndex, clock, pending, started >>
    /\ Elsewhere

\* Sidebar or HeroInput: a saved session clicked.
HandleLoadSession(session) ==
    IF session.plan # Null
    THEN /\ currentSessionId' = session.id
         /\ url' = session.url
         /\ testData' = session.testData
         /\ requirements' = session.requirements
         /\ artifactScope' = session.artifactScope
         /\ testPlan' = session.plan
         /\ state' = "DISPLAY"
         /\ alertMsg' = NoText
         /\ UNCHANGED << error, generatingMoreSuiteIndex, savedSessions, storage, mounted, heap,
                         clock, pending, started, edits >>
         /\ Elsewhere
    ELSE IF session.requirements # NoText
    THEN /\ currentSessionId' = session.id
         /\ url' = session.url
         /\ testData' = session.testData
         /\ requirements' = session.requirements
         /\ artifactScope' = session.artifactScope
         /\ state' = "CONFIGURING"
         /\ alertMsg' = NoText
         /\ UNCHANGED << testPlan, error, generatingMoreSuiteIndex, savedSessions, storage, mounted,
                         heap, clock, pending, started, edits >>
         /\ Elsewhere
    ELSE /\ requirements' = session.requirements
         /\ artifactScope' = session.artifactScope
         /\ AnalyzeStart(session.url, session.testData)
         /\ UNCHANGED testPlan

\* Sidebar or HeroInput: the delete button of a saved session.
HandleDeleteSession(sessionId) ==
    /\ edits < MaxEdits
    /\ edits' = edits + 1
    /\ savedSessions' = DeleteFilter(savedSessions, sessionId)
    /\ IF quotaExceeded
       THEN \* setItem throws out of the handler: handleReset is not reached
            /\ storage' = storage
            /\ UNCHANGED << state, url, requirements, testData, artifactScope, testPlan,
                            error, currentSessionId >>
       ELSE /\ storage' = DeleteSaved(heap, savedSessions, sessionId)
            /\ IF currentSessionId = sessionId
               THEN ResetView
               ELSE UNCHANGED << state, url, requirements, testData, artifactScope,
                                 testPlan, error, currentSessionId >>
    /\ alertMsg' = NoText
    /\ UNCHANGED << generatingMoreSuiteIndex, heap, clock, pending, started, mounted >>
    /\ Elsewhere

----------------------------------------------------------------------------
(* Async handlers: the part before the await *)

\* HeroInput submit or a recent url clicked.
HandleAnalyze(inputUrl, initialData) ==
    /\ state = "IDLE"
    /\ AnalyzeStart(inputUrl, initialData)
    /\ UNCHANGED << requirements, artifactScope, testPlan >>

\* TestDataForm onGenerate.
HandleGenerate(data, scope) ==
    /\ state = "CONFIGURING" /\ requirements # NoText
    /\ started < MaxAsync
    /\ testData' = data
    /\ artifactScope' = scope
    /\ state' = "GENERATING"
    /\ error' = NoText
    /\ pending' = Append(pending,
                    [Call("generate") EXCEPT !.url = url, !.data = data, !.scope = scope,
                                             !.currentSessionId = currentSessionId,
                                             !.savedSessions = savedSessions])
    /\ started' = started + 1
    /\ alertMsg' = NoText
    /\ UNCHANGED << url, requirements, testPlan, generatingMoreSuiteIndex, savedSessions,
                    currentSessionId, storage, mounted, heap, clock, edits >>
    /\ Elsewhere

\* "+ Add Test Cases" of a suite; TestPlanDisplay disables the control of the
\* suite whose index equals generatingMoreSuiteIndex.
HandleGenerateMore(suiteIndex) ==
    /\ state = "DISPLAY" /\ testPlan # Null
    /\ suiteIndex \in 0..(NumSuites(heap, testPlan) - 1)
    /\ generatingMoreSuiteIndex # suiteIndex
    /\ started < MaxAsync
    /\ generatingMoreSuiteIndex' = suiteIndex
    /\ pending' = Append(pending,
                    [Call("more") EXCEPT !.testPlan = testPlan, !.suiteIndex = suiteIndex,
                                         !.currentSessionId = currentSessionId,
                                         !.savedSessions = savedSessions])
    /\ started' = started + 1
    /\ alertMsg' = NoText
    /\ UNCHANGED << state, url, requirements, testData, artifactScope, testPlan, error,
                    savedSessions, currentSessionId, storage, mounted, heap, clock, edits >>
    /\ Elsewhere

\* handleRegenerateCase up to its await.  "suite.cases" throws when the plan
\* has no suite of that index: the promise is rejected before any call is made
\* and confirmRegenerate alerts.  A case index the suite does not have makes
\* originalCase undefined, and the call is made.
HandleRegenerateCase(suiteIndex, caseIndex) ==
    /\ state = "DISPLAY" /\ testPlan # Null
    /\ IF suiteIndex \in 0..(NumSuites(heap, testPlan) - 1)
       THEN /\ started < MaxAsync
            /\ pending' = Append(pending,
                            [Call("regen") EXCEPT !.testPlan = testPlan,
                                                  !.suiteIndex = suiteIndex,
                                                  !.caseIndex = caseIndex,
                                                  !.currentSessionId = currentSessionId,
                                                  !.savedSessions = savedSessions])
            /\ started' = started + 1
            /\ alertMsg' = NoText
       ELSE /\ alertMsg' = "Failed to regenerate case."
            /\ UNCHANGED << pending, started >>
    /\ UNCHANGED << state, url, requirements, testData, artifactScope, testPlan, error,
                    generatingMoreSuiteIndex, savedSessions, currentSessionId, storage, mounted,
                    heap, clock, edits >>
    /\ Elsewhere

----------------------------------------------------------------------------
(* Async handlers: the continuation, run when call k returns *)

\* handleAnalyze, analyzeRequirements resolved.
AnalyzeResolves(k, result) ==
    /\ pending[k].kind = "analyze"
    /\ requirements' = result
    /\ state' = "CONFIGURING"
    /\ heap' = heap
    /\ Persist([pending[k].newSession[1] EXCEPT !.requirements = result])
    /\ pending' = Remove(pending, k)
    /\ alertMsg' = NoText
    /\ UNCHANGED << url, testData, artifactScope, testPlan, error,
                    generatingMoreSuiteIndex, currentSessionId, clock, started, edits >>
    /\ Elsewhere

\* handleAnalyze, analyzeRequirements rejected.
AnalyzeRejects(k) ==
    /\ pending[k].kind = "analyze"
    /\ error' = "Failed to analyze website requirements."
    /\ state' = "IDLE"
    /\ pending' = Remove(pending, k)
    /\ alertMsg' = NoText
    /\ UNCHANGED << url, requirements, testData, artifactScope, testPlan,
                    generatingMoreSuiteIndex, savedSessions, currentSessionId, storage, mounted,
                    heap, clock, started, edits >>
    /\ Elsewhere

\* handleGenerate, generateTestPlan resolved with a plan of the given suites.
GenerateResolves(k, suites) ==
    /\ pending[k].kind = "generate"
    /\ heap' = Append(heap, suites)
    /\ testPlan' = Some(Plan(pending[k].url, Len(heap) + 1))
    /\ state' = "DISPLAY"
    /\ AutoUpdate(pending[k].currentSessionId, pending[k].savedSessions,
                  [testData |-> pending[k].data,
                   artifactScope |-> pending[k].scope,
                   plan |-> Some(Plan(pending[k].url, Len(heap) + 1)),
                   timestamp |-> clock])
    /\ pending' = Remove(pending, k)
    /\ alertMsg' = NoText
    /\ UNCHANGED << url, requirements, testData, artifactScope, error,
                    generatingMoreSuiteIndex, currentSessionId, clock, started, edits >>
    /\ Elsewhere

\* handleGenerate, generateTestPlan rejected.
GenerateRejects(k) ==
    /\ pending[k].kind = "generate"
    /\ error' = "Failed to generate test plan."
    /\ state' = "CONFIGURING"
    /\ pending' = Remove(pending, k)
    /\ alertMsg' = NoText
    /\ UNCHANGED << url, requirements, testData, artifactScope, testPlan,
                    generatingMoreSuiteIndex, savedSessions, currentSessionId, storage, mounted,
                    heap, clock, started, edits >>
    /\ Elsewhere

\* handleGenerateMore, generateMoreTestCases resolved with newCases.
GenerateMoreResolves(k, newCases) ==
    /\ pending[k].kind = "more"
    /\ heap' = AppendCases(heap, pending[k].testPlan, pending[k].suiteIndex, newCases)
    /\ testPlan' = pending[k].testPlan
    /\ AutoUpdate(pending[k].currentSessionId, pending[k].savedSessions,
                  [plan |-> pending[k].testPlan])
    /\ generatingMoreSuiteIndex' = NoIndex
    /\ pending' = Remove(pending, k)
    /\ alertMsg' = NoText
    /\ UNCHANGED << state, url, requirements, testData, artifactScope, error,
                    currentSessionId, clock, started, edits >>
    /\ Elsewhere

\* handleGenerateMore with a fault: no finally block, a rejected call leaves
\* generatingMoreSuiteIndex as it is.
GenerateMoreRejectsNoFinally(k) ==
    /\ pending[k].kind = "more"
    /\ alertMsg' = "Failed to generate more cases."
    /\ pending' = Remove(pending, k)
    /\ UNCHANGED << state, url, requirements, testData, artifactScope, testPlan, error,
                    generatingMoreSuiteIndex, savedSessions, currentSessionId, storage, mounted,
                    heap, clock, started, edits >>
    /\ Elsewhere

\* handleGenerateMore with a fault: a rejected call is handled as one that
\* returned no cases, and the plan of the closure is set and persisted.
GenerateMoreRejectsMerging(k) ==
    /\ pending[k].kind = "more"
    /\ heap' = heap
    /\ testPlan' = pending[k].testPlan
    /\ AutoUpdate(pending[k].currentSessionId, pending[k].savedSessions,
                  [plan |-> pending[k].testPlan])
    /\ alertMsg' = "Failed to generate more cases."
    /\ generatingMoreSuiteIndex' = NoIndex
    /\ pending' = Remove(pending, k)
    /\ UNCHANGED << state, url, requirements, testData, artifactScope, error,
                    currentSessionId, clock, started, edits >>
    /\ Elsewhere

\* handleGenerateMore, generateMoreTestCases rejected: catch, then finally.
GenerateMoreRejects(k) ==
    /\ pending[k].kind = "more"
    /\ alertMsg' = "Failed to generate more cases."
    /\ generatingMoreSuiteIndex' = NoIndex
    /\ pending' = Remove(pending, k)
    /\ UNCHANGED << state, url, requirements, testData, artifactScope, testPlan, error,
                    savedSessions, currentSessionId, storage, mounted, heap, clock, started, edits >>
    /\ Elsewhere

\* handleRegenerateCase, regenerateTestCase resolved with updatedCase.
RegenerateResolves(k, updatedCase) ==
    /\ pending[k].kind = "regen"
    /\ heap' = WriteCase(heap, pending[k].testPlan, pending[k].suiteIndex,
                         pending[k].caseIndex, updatedCase)
    /\ testPlan' = pending[k].testPlan
    /\ AutoUpdate(pending[k].currentSessionId, pending[k].savedSessions,
                  [plan |-> pending[k].testPlan])
    /\ pending' = MarkEdited(Remove(pending, k), pending[k].suiteIndex,
                           pending[k].testPlan[1].suites)
    /\ alertMsg' = NoText
    /\ UNCHANGED << state, url, requirements, testData, artifactScope, error,
                    generatingMoreSuiteIndex, currentSessionId, clock, started, edits >>
    /\ selectedCaseInfo' = Null
    /\ KeepView /\ UNCHANGED otherVars

\* handleRegenerateCase rethrows; confirmRegenerate of TestPlanDisplay alerts.
RegenerateRejects(k) ==
    /\ pending[k].kind = "regen"
    /\ alertMsg' = "Failed to regenerate case."
    /\ pending' = Remove(pending, k)
    /\ UNCHANGED << state, url, requirements, testData, artifactScope, testPlan, error,
                    generatingMoreSuiteIndex, savedSessions, currentSessionId, storage, mounted,
                    heap, clock, started, edits >>
    /\ Elsewhere

----------------------------------------------------------------------------
(* The user's controls and the returns of the backend *)

UpdateTestCase ==
    \E suiteIndex \in 0..1, caseIndex \in 0..MaxAsync, rev \in EditRevs :
        /\ testPlan # Null
        /\ suiteIndex < NumSuites(heap, testPlan)
        /\ caseIndex < Len(SuiteCases(heap, testPlan, suiteIndex))
        /\ SuiteCases(heap, testPlan, suiteIndex)[caseIndex + 1].rev # rev
        /\ HandleUpdateTestCase(suiteIndex, caseIndex,
              [SuiteCases(heap, testPlan, suiteIndex)[caseIndex + 1] EXCEPT !.rev = rev])

SaveSession == \E name \in UserNames : HandleSaveSession(name)

LoadSession == \E k \in 1..Len(savedSessions) : HandleLoadSession(savedSessions[k])

DeleteSession == \E k \in 1..Len(savedSessions) : HandleDeleteSession(savedSessions[k].id)

Analyze == \E input \in AnalyzeInputs : HandleAnalyze(input[1], input[2])

Generate == \E input \in GenerateInputs : HandleGenerate(input[1], input[2])

GenerateMore == \E suiteIndex \in 0..1 : HandleGenerateMore(suiteIndex)

\* The regenerate modal opened on a case of the plan on display and confirmed.
RegenerateCase ==
    \E suiteIndex \in 0..1, caseIndex \in 0..MaxAsync :
        /\ testPlan # Null
        /\ suiteIndex < NumSuites(heap, testPlan)
        /\ caseIndex < Len(SuiteCases(heap, testPlan, suiteIndex))
        /\ HandleRegenerateCase(suiteIndex, caseIndex)

AnalyzeReturns ==
    \E k \in 1..Len(pending) :
        \/ \E result \in AnalysisResults : AnalyzeResolves(k, result)
        \/ AnalyzeRejects(k)

GenerateReturns ==
    \E k \in 1..Len(pending) :
        \/ \E suites \in PlanResponses : GenerateResolves(k, suites)
        \/ GenerateRejects(k)

GenerateMoreReturns ==
    \E k \in 1..Len(pending) :
        \/ \E newCases \in MoreResponses : GenerateMoreResolves(k, newCases)
        \/ GenerateMoreRejects(k)

RegenerateReturns ==
    \E k \in 1..Len(pending) :
        \/ \E updatedCase \in RegenResponses : RegenerateResolves(k, updatedCase)
        \/ RegenerateRejects(k)

Next ==
    \/ Tick
    \/ HandleReset
    \/ HandleEditConfig
    \/ CancelConfig
    \/ DismissError
    \/ UpdateTestCase
    \/ SaveSession
    \/ LoadSession
    \/ DeleteSession
    \/ Analyze
    \/ Generate
    \/ GenerateMore
    \/ RegenerateCase
    \/ AnalyzeReturns
    \/ GenerateReturns
    \/ GenerateMoreReturns
    \/ RegenerateReturns

Spec == Init /\ [][Next]_vars

----------------------------------------------------------------------------
(* The regenerate modal of TestPlanDisplay, step by step *)

\* handleOpenRegenerate: the regenerate button of a case of the plan on display.
OpenRegenerate ==
    \E suiteIdx \in 0..1, caseIdx \in 0..MaxAsync :
        /\ state = "DISPLAY" /\ testPlan # Null
        /\ selectedCaseInfo = Null
        /\ suiteIdx < NumSuites(heap, testPlan)
        /\ caseIdx < Len(SuiteCases(heap, testPlan, suiteIdx))
        /\ selectedCaseInfo' = Some([suiteIdx |-> suiteIdx, caseIdx |-> caseIdx])
        /\ alertMsg' = NoText
        /\ UNCHANGED << state, url, requirements, testData, artifactScope, testPlan,
                        error, generatingMoreSuiteIndex, savedSessions, currentSessionId,
                        storage, mounted, heap, clock, pending, started, edits >>
        /\ KeepView /\ UNCHANGED otherVars

\* confirmRegenerate: the modal's button, with the indices the modal holds.
ConfirmRegenerate ==
    /\ selectedCaseInfo # Null
    /\ HandleRegenerateCase(selectedCaseInfo[1].suiteIdx, selectedCaseInfo[1].caseIdx)

\* The session with plans only: no edits, no new analysis, the modal in steps.
ModalNext ==
    \/ HandleEditConfig
    \/ CancelConfig
    \/ LoadSession
    \/ Generate
    \/ GenerateMore
    \/ OpenRegenerate
    \/ ConfirmRegenerate
    \/ GenerateReturns
    \/ GenerateMoreReturns
    \/ RegenerateReturns

ModalSpec == Init /\ [][ModalNext]_vars

----------------------------------------------------------------------------
(* TestPlanDisplay: the filter tabs, the priority sort and the rows.        *)
(* A case is told by its id and its revision; its priority, scenario type   *)
(* and type go with its id.                                                 *)

FilterTypes == {"ALL", "POSITIVE", "NEGATIVE", "ACCESSIBILITY"}

\* priorityWeight[c.priority] || 0
PriorityWeight(c) ==
    CASE c.id = 1 -> 1
      [] c.id = 2 -> 3
      [] c.id = 3 -> 4
      [] OTHER -> 0

ScenarioType(c) ==
    CASE c.id = 1 -> "Positive"
      [] c.id = 2 -> "Negative"
      [] c.id = 3 -> "Boundary"
      [] OTHER -> "undefined"

TypeOf(c) ==
    CASE c.id = 3 -> "Accessibility"
      [] c.id = 0 -> "undefined"
      [] OTHER -> "Functional"

\* Array.prototype.sort with the comparator (a, b) => w(a) - w(b): the number
\* of elements that come before the j-th one.
Rank(w, j) ==
    Cardinality({ k \in 1..Len(w) : w[k] < w[j] \/ (w[k] = w[j] /\ k < j) })

StableSort(a, w) ==
    [r \in 1..Len(a) |-> a[CHOOSE j \in 1..Len(a) : Rank(w, j) = r - 1]]

\* a.sort(...): the array itself is reordered and returned.
SortInPlace(a, w) == [array |-> StableSort(a, w), result |-> StableSort(a, w)]

\* [...a].sort(...): a stays as it is, the copy is reordered and returned.
SortCopy(a, w) == [array |-> a, result |-> StableSort(a, w)]

\* cases.filter(...) of the switch over the filter
Filtered(cases, f) ==
    CASE f = "POSITIVE" -> SelectSeq(cases, LAMBDA c : ScenarioType(c) = "Positive")
      [] f = "NEGATIVE" -> SelectSeq(cases, LAMBDA c : ScenarioType(c) = "Negative")
      [] f = "ACCESSIBILITY" -> SelectSeq(cases, LAMBDA c : TypeOf(c) = "Accessibility")
      [] OTHER -> cases

\* weightA - weightB for PRIORITY_ASC, weightB - weightA for PRIORITY_DESC
Weights(cases, o) ==
    [k \in 1..Len(cases) |-> IF o = "PRIORITY_DESC" THEN 0 - PriorityWeight(cases[k])
                             ELSE PriorityWeight(cases[k])]

\* getProcessedCases(cases) under filter f and sort order o: the list it
\* returns, and the cases array as the call leaves it.  Without a filter
\* "processed" is the cases array itself.
GetProcessedCases(cases, f, o) ==
    IF o = "DEFAULT"
    THEN [cases |-> cases, processed |-> Filtered(cases, f)]
    ELSE LET sorted == SortCopy(Filtered(cases, f), Weights(Filtered(cases, f), o))
         IN  [cases |-> IF f = "ALL" THEN sorted.array ELSE cases,
              processed |-> sorted.result]

\* The heap after TestPlanDisplay rendered the plan: every suite went through
\* getProcessedCases.
Rendered(h, plan, f, o) ==
    [h EXCEPT ![plan[1].suites] =
        [k \in 1..Len(h[plan[1].suites]) |->
            [cases |-> GetProcessedCases(h[plan[1].suites][k].cases, f, o).cases]]]

\* The sessions of a domain as the Sidebar lists them: a new array per group,
\* its copy sorted by timestamp, latest first.
SidebarGroup(sessions, domain) ==
    LET group == SelectSeq(sessions, LAMBDA x : Hostname(x.url) = domain)
    IN  SortCopy(group, [k \in 1..Len(group) |-> 0 - group[k].timestamp]).result

\* What a click on the display changes besides the view.
ViewFrame ==
    /\ alertMsg' = NoText
    /\ UNCHANGED << state, url, requirements, testData, artifactScope, testPlan, error,
                    generatingMoreSuiteIndex, savedSessions, currentSessionId, storage,
                    mounted, clock, pending, started, edits, selectedCaseInfo >>
    /\ UNCHANGED otherVars

\* A filter tab is clicked and the display renders again.
SetFilter(f) ==
    /\ state = "DISPLAY" /\ testPlan # Null
    /\ f # filter
    /\ filter' = f
    /\ sortOrder' = sortOrder
    /\ heap' = Rendered(heap, testPlan, f, sortOrder)
    /\ ViewFrame

\* toggleSort, and the display renders again.
ToggleSort ==
    /\ state = "DISPLAY" /\ testPlan # Null
    /\ sortOrder' = CASE sortOrder = "DEFAULT" -> "PRIORITY_DESC"
                      [] sortOrder = "PRIORITY_DESC" -> "PRIORITY_ASC"
                      [] OTHER -> "DEFAULT"
    /\ filter' = filter
    /\ heap' = Rendered(heap, testPlan, filter, sortOrder')
    /\ ViewFrame

\* The rows of a suite as displayed.
Rows(suiteIndex) == GetProcessedCases(SuiteCases(heap, testPlan, suiteIndex), filter, sortOrder).processed

\* A field of a displayed row is edited: TestCaseRow calls onUpdate with the
\* row's position in the processed list.
EditRow ==
    \E suiteIndex \in 0..1, cIdx \in 0..MaxAsync, rev \in EditRevs :
        /\ testPlan # Null
        /\ suiteIndex < NumSuites(heap, testPlan)
        /\ cIdx < Len(Rows(suiteIndex))
        /\ Rows(suiteIndex)[cIdx + 1].rev # rev
        /\ HandleUpdateTestCase(suiteIndex, cIdx, [Rows(suiteIndex)[cIdx + 1] EXCEPT !.rev = rev])

\* handleOpenRegenerate from a displayed row, with the row's position.
OpenRegenerateRow ==
    \E suiteIdx \in 0..1, cIdx \in 0..MaxAsync :
        /\ state = "DISPLAY" /\ testPlan # Null
        /\ selectedCaseInfo = Null
        /\ suiteIdx < NumSuites(heap, testPlan)
        /\ cIdx < Len(Rows(suiteIdx))
        /\ selectedCaseInfo' = Some([suiteIdx |-> suiteIdx, caseIdx |-> cIdx])
        /\ alertMsg' = NoText
        /\ UNCHANGED << state, url, requirements, testData, artifactScope, testPlan,
                        error, generatingMoreSuiteIndex, savedSessions, currentSessionId,
                        storage, mounted, heap, clock, pending, started, edits,
                        filter, sortOrder >>
        /\ UNCHANGED otherVars

\* A session with plans on display: more cases, the view, edits of rows.
ViewNext ==
    \/ LoadSession
    \/ GenerateMore
    \/ GenerateMoreReturns
    \/ \E f \in FilterTypes : SetFilter(f)
    \/ ToggleSort
    \/ EditRow
    \/ OpenRegenerateRow
    \/ ConfirmRegenerate
    \/ RegenerateReturns

ViewSpec == Init /\ [][ViewNext]_vars

----------------------------------------------------------------------------
(* The App with a localStorage that runs out of room.                       *)

\* The quota of localStorage is reached: setItem throws from now on.
QuotaReached ==
    /\ ~quotaExceeded
    /\ quotaExceeded' = TRUE
    /\ UNCHANGED exceptQuota

\* Room is made in localStorage, by another tab or by the user.
QuotaFreed ==
    /\ quotaExceeded
    /\ quotaExceeded' = FALSE
    /\ UNCHANGED exceptQuota

\* The handlers run while the tree of App is rendered.
StorageNext ==
    \/ QuotaReached
    \/ QuotaFreed
    \/ mounted /\ Tick
    \/ mounted /\ HandleReset
    \/ mounted /\ HandleEditConfig
    \/ mounted /\ CancelConfig
    \/ mounted /\ DismissError
    \/ mounted /\ UpdateTestCase
    \/ mounted /\ SaveSession
    \/ mounted /\ LoadSession
    \/ mounted /\ DeleteSession
    \/ mounted /\ Analyze
    \/ mounted /\ Generate
    \/ mounted /\ GenerateMore
    \/ mounted /\ RegenerateCase
    \/ mounted /\ AnalyzeReturns
    \/ mounted /\ GenerateReturns
    \/ mounted /\ GenerateMoreReturns
    \/ mounted /\ RegenerateReturns

\* A run in which two backend calls were made and answered before.
StorageInit == Mounted /\ started = 2 /\ Aside

StorageSpec == StorageInit /\ [][StorageNext]_vars

----------------------------------------------------------------------------
(* The session list of the active user.  The App that knows the user (it    *)
(* hands currentUser to the Sidebar and receives onLogin from AuthScreen)   *)
(* is not among the sources; listFor is taken from the specification, the   *)
(* rest from the declarations and from the Sidebar.                         *)

\* Most sessions in the collection.
MaxOwned == 3

Users == {"a", "b"}

\* The userId of a session stored before sessions had owners.
NoUser == ""

\* A session, as far as its owner goes.
Owned(id, userId) == [id |-> id, userId |-> userId]

\* The collections localStorage can hold.
OwnedCollections ==
    UNION { { [k \in 1..n |-> Owned(k, owner[k])] : owner \in [1..n -> Users \cup {NoUser}] }
              : n \in 0..MaxOwned }

\* listFor with no filter: every session of the collection.
ListForAll(userId, sessions) == sessions

\* listFor(userId): the sessions owned by the user and those without owner.
ListFor(userId, sessions) ==
    SelectSeq(sessions, LAMBDA x : x.userId = userId \/ x.userId = NoUser)

\* The Sidebar renders nothing without a user, else the sessions it is given.
SidebarList(user, sessions) == IF user = "" THEN << >> ELSE ListFor(user, sessions)

\* AuthScreen called onLogin with the user.
Login(user) ==
    /\ currentUser = ""
    /\ currentUser' = user
    /\ ownedSessions' = ownedSessions
    /\ listed' = SidebarList(user, ownedSessions)
    /\ UNCHANGED exceptOwner

\* The Sidebar's onLogout.
Logout ==
    /\ currentUser # ""
    /\ currentUser' = ""
    /\ ownedSessions' = ownedSessions
    /\ listed' = << >>
    /\ UNCHANGED exceptOwner

\* The active user starts an analysis: the new session is theirs.
CreateOwned ==
    /\ currentUser # ""
    /\ Len(ownedSessions) < MaxOwned
    /\ ownedSessions' = << Owned(Len(ownedSessions) + 1, currentUser) >> \o ownedSessions
    /\ currentUser' = currentUser
    /\ listed' = SidebarList(currentUser, ownedSessions')
    /\ UNCHANGED exceptOwner

\* The delete button of a listed session.
DeleteOwned(id) ==
    /\ \E k \in 1..Len(listed) : listed[k].id = id
    /\ ownedSessions' = SelectSeq(ownedSessions, LAMBDA x : x.id # id)
    /\ currentUser' = currentUser
    /\ listed' = SidebarList(currentUser, ownedSessions')
    /\ UNCHANGED exceptOwner

OwnerNext ==
    \/ \E user \in Users : Login(user)
    \/ Logout
    \/ CreateOwned
    \/ \E id \in 1..MaxOwned : DeleteOwned(id)

\* The App as mounted, with any collection in localStorage and nobody logged in.
OwnerInit ==
    /\ Mounted
    /\ started = 0
    /\ NoRow
    /\ quotaExceeded = FALSE
    /\ currentUser = ""
    /\ ownedSessions \in OwnedCollections
    /\ listed = << >>
    /\ NoAuth

OwnerSpec == OwnerInit /\ [][OwnerNext]_vars

----------------------------------------------------------------------------
(* AuthScreen: login and registration with a verification code.  A user is  *)
(* told by email and role; a stored user has the password as well.          *)

MaxLogins == 2

AdminEmail == "admin@mythosqa.com"

AdminPassword == "Admin123!"

\* What the user types into the email and the password field.
Emails == { AdminEmail, "u1" }

Passwords == { AdminPassword, "p1" }

\* generateCode(): six digits.
Codes == { "100000", "999999" }

\* What the code field can hold: digits, six at most.
EnteredCodes == Codes \cup { "1" }

\* users.find(u => u.email === email && u.password === password), by email only.
FindUserByEmail(us, e, p) ==
    LET ks == { k \in 1..Len(us) : us[k].email = e }
    IN  IF ks = {} THEN Null
        ELSE Some(us[CHOOSE k \in ks : \A j \in ks : k <= j])

\* users.find(u => u.email === email && u.password === password)
FindUser(us, e, p) ==
    LET ks == { k \in 1..Len(us) : us[k].email = e /\ us[k].password = p }
    IN  IF ks = {} THEN Null
        ELSE Some(us[CHOOSE k \in ks : \A j \in ks : k <= j])

\* const { password: _, ...safeUser } = user
SafeUser(user) == [email |-> user.email, role |-> user.role]

\* onChange of the email field, shown in the credentials step.
SetEmail(e) ==
    /\ step = "CREDENTIALS"
    /\ email' = e
    /\ UNCHANGED << mode, step, password, verificationCode, userEnteredCode,
                    authError, successMsg, users, onLogin >>
    /\ UNCHANGED exceptAuth

\* onChange of the password field, shown in the credentials step.
SetPassword(p) ==
    /\ step = "CREDENTIALS"
    /\ password' = p
    /\ UNCHANGED << mode, step, email, verificationCode, userEnteredCode,
                    authError, successMsg, users, onLogin >>
    /\ UNCHANGED exceptAuth

\* onChange of the code field, shown in the verification step.
SetUserEnteredCode(c) ==
    /\ step = "VERIFICATION"
    /\ userEnteredCode' = c
    /\ UNCHANGED << mode, step, email, password, verificationCode, authError,
                    successMsg, users, onLogin >>
    /\ UNCHANGED exceptAuth

\* Submit of the credentials form; both fields are required.  code is what
\* generateCode() returns if it is called.
HandleCredentialsSubmit(code) ==
    /\ step = "CREDENTIALS"
    /\ email # "" /\ password # ""
    /\ successMsg' = NoText
    /\ IF email = AdminEmail /\ password = AdminPassword
       THEN /\ Len(onLogin) < MaxLogins
            /\ onLogin' = Append(onLogin, [email |-> AdminEmail, role |-> "ADMIN"])
            /\ authError' = NoText
            /\ UNCHANGED << verificationCode, step >>
       ELSE IF mode = "LOGIN"
       THEN IF FindUser(users, email, password) # Null
            THEN /\ verificationCode' = code
                 /\ step' = "VERIFICATION"
                 /\ authError' = NoText
                 /\ UNCHANGED onLogin
            ELSE /\ authError' = "Invalid email or password."
                 /\ UNCHANGED << verificationCode, step, onLogin >>
       ELSE IF \E k \in 1..Len(users) : users[k].email = email
            THEN /\ authError' = "User already exists with this email."
                 /\ UNCHANGED << verificationCode, step, onLogin >>
            ELSE /\ verificationCode' = code
                 /\ step' = "VERIFICATION"
                 /\ authError' = NoText
                 /\ UNCHANGED onLogin
    /\ UNCHANGED << mode, email, password, userEnteredCode, users >>
    /\ UNCHANGED exceptAuth

\* Submit of the verification form; the code field is required.
HandleVerificationSubmit ==
    /\ step = "VERIFICATION"
    /\ userEnteredCode # ""
    /\ IF userEnteredCode # verificationCode
       THEN /\ authError' = "Invalid verification code. Please try again."
            /\ UNCHANGED << mode, step, password, verificationCode, userEnteredCode,
                            successMsg, users, onLogin >>
       ELSE IF mode = "LOGIN"
       THEN /\ authError' = NoText
            /\ IF FindUser(users, email, password) # Null
               THEN /\ Len(onLogin) < MaxLogins
                    /\ onLogin' = Append(onLogin, SafeUser(FindUser(users, email, password)[1]))
               ELSE UNCHANGED onLogin
            /\ UNCHANGED << mode, step, password, verificationCode, userEnteredCode,
                            successMsg, users >>
       ELSE /\ authError' = NoText
            /\ users' = Append(users, [email |-> email, password |-> password,
                                       role |-> "USER"])
            /\ successMsg' = "Registration successful! Please log in with your new credentials."
            /\ mode' = "LOGIN"
            /\ step' = "CREDENTIALS"
            /\ password' = ""
            /\ userEnteredCode' = ""
            /\ verificationCode' = ""
            /\ UNCHANGED onLogin
    /\ UNCHANGED email
    /\ UNCHANGED exceptAuth

\* The link under the credentials form.
SwitchMode ==
    /\ step = "CREDENTIALS"
    /\ mode' = IF mode = "LOGIN" THEN "REGISTER" ELSE "LOGIN"
    /\ step' = "CREDENTIALS"
    /\ authError' = NoText
    /\ successMsg' = NoText
    /\ userEnteredCode' = ""
    /\ UNCHANGED << email, password, verificationCode, users, onLogin >>
    /\ UNCHANGED exceptAuth

\* "Back to credentials" of the verification form.
BackToCredentials ==
    /\ step = "VERIFICATION"
    /\ step' = "CREDENTIALS"
    /\ authError' = NoText
    /\ UNCHANGED << mode, email, password, verificationCode, userEnteredCode,
                    successMsg, users, onLogin >>
    /\ UNCHANGED exceptAuth

AuthNext ==
    \/ \E e \in Emails : SetEmail(e)
    \/ \E p \in Passwords : SetPassword(p)
    \/ \E c \in EnteredCodes : SetUserEnteredCode(c)
    \/ \E code \in Codes : HandleCredentialsSubmit(code)
    \/ HandleVerificationSubmit
    \/ SwitchMode
    \/ BackToCredentials

AuthSpec == Init /\ [][AuthNext]_vars

----------------------------------------------------------------------------
(* geminiService: what a call makes of the reply of the model.              *)
(* The text of a reply is a JSON document, or something that is none,       *)
(* possibly inside a ``` fence and possibly with prose around it.  A        *)
(* document is told by its shape: an array of objects, an object with a     *)
(* cases array, a single object, a plan object, an analysis object.         *)

Doc(kind, cases) == [kind |-> kind, cases |-> cases]

\* An object without an id: {} or any object that is no case.
Shapeless == Case(0, 1)

\* A plan object carries its suites[0].cases and suites[1].cases.
Docs ==
    { Doc("garbage", << >>),
      Doc("array", << >>),
      Doc("array", << Case(2, 0) >>),
      Doc("array", << Case(2, 0), Case(3, 0) >>),
      Doc("array", << Shapeless >>),
      Doc("wrapped", << Case(2, 0) >>),
      Doc("object", << Case(1, 2) >>),
      Doc("object", << Shapeless >>),
      Doc("plan", << Case(3, 0), Case(3, 0) >>),
      Doc("analysis", << >>) }

Texts == [fence : BOOLEAN, prose : BOOLEAN, doc : Docs]

\* The ways a call can end: no API key, the request fails, the response has no
\* text, the response has a text.
Replies ==
    { [end |-> e, text |-> [fence |-> FALSE, prose |-> FALSE, doc |-> Doc("garbage", << >>)]]
         : e \in {"nokey", "error", "empty"} }
    \cup { [end |-> "text", text |-> t] : t \in Texts }

Thrown == [ok |-> FALSE, doc |-> Doc("garbage", << >>)]

\* JSON.parse of a document as written, with nothing around it.
JsonParse(doc) == IF doc.kind = "garbage" THEN Thrown ELSE [ok |-> TRUE, doc |-> doc]

\* text.indexOf('{') !== -1 && text.lastIndexOf('}') !== -1
HasBraces(doc) == doc.kind \notin {"garbage"} /\ ~(doc.kind = "array" /\ doc.cases = << >>)

\* text.substring(firstBrace, lastBrace + 1): of an array of one object it is
\* the object, of an array of several objects it is "{...}, {...}".
BraceSlice(doc) ==
    IF doc.kind # "array" THEN doc
    ELSE IF Len(doc.cases) = 1 THEN Doc("object", doc.cases)
    ELSE Doc("garbage", << >>)

ExtractJson(text) ==
    IF text.fence THEN JsonParse(text.doc)
    ELSE IF HasBraces(text.doc) THEN JsonParse(BraceSlice(text.doc))
    ELSE IF text.prose THEN Thrown
    ELSE JsonParse(text.doc)

\* The part of the service functions inside try: the response's text parsed.
Parsed(reply) == IF reply.end = "text" THEN ExtractJson(reply.text) ELSE Thrown

\* The result analyzeRequirements gives when anything inside its try fails.
Fallback == "r0"

\* analyzeRequirements: rejected without an API key; any later failure gives
\* the fallback; a parsed document is returned whatever its shape.
AnalyzeRequirements(reply) ==
    IF reply.end = "nokey" THEN [ok |-> FALSE, result |-> NoText]
    ELSE IF ~Parsed(reply).ok THEN [ok |-> TRUE, result |-> Fallback]
    ELSE IF Parsed(reply).doc.kind = "analysis" THEN [ok |-> TRUE, result |-> "r1"]
    ELSE [ok |-> TRUE, result |-> "rx"]

\* generateTestPlan: { ...parsedData, groundingSources }; a document that is no
\* plan gives a plan object without suites.
GenerateTestPlan(reply) ==
    IF ~Parsed(reply).ok THEN [ok |-> FALSE, suites |-> << >>]
    ELSE IF Parsed(reply).doc.kind = "plan"
    THEN [ok |-> TRUE,
          suites |-> [k \in 1..Len(Parsed(reply).doc.cases)
                         |-> [cases |-> << Parsed(reply).doc.cases[k] >>]]]
    ELSE [ok |-> TRUE, suites |-> << >>]

\* generateMoreTestCases: an array, or the cases of an object, or [].
GenerateMoreTestCases(reply) ==
    IF ~Parsed(reply).ok THEN [ok |-> FALSE, cases |-> << >>]
    ELSE IF Parsed(reply).doc.kind \in {"array", "wrapped"}
    THEN [ok |-> TRUE, cases |-> Parsed(reply).doc.cases]
    ELSE [ok |-> TRUE, cases |-> << >>]

\* regenerateTestCase: the object if it has an id, else the first of its
\* cases, else the first element of the array, else the document as it is.
RegenerateTestCase(reply) ==
    LET doc == Parsed(reply).doc
    IN  IF ~Parsed(reply).ok THEN [ok |-> FALSE, case |-> Shapeless]
        ELSE IF doc.kind = "object" /\ doc.cases[1].id # 0
        THEN [ok |-> TRUE, case |-> doc.cases[1]]
        ELSE IF doc.kind \in {"wrapped", "array"} /\ doc.cases # << >>
        THEN [ok |-> TRUE, case |-> doc.cases[1]]
        ELSE [ok |-> TRUE, case |-> Shapeless]

AnalyzeSettled(k, reply) ==
    IF AnalyzeRequirements(reply).ok
    THEN AnalyzeResolves(k, AnalyzeRequirements(reply).result)
    ELSE AnalyzeRejects(k)

AnalyzeSettles == \E k \in 1..Len(pending), reply \in Replies : AnalyzeSettled(k, reply)

GenerateSettled(k, reply) ==
    IF GenerateTestPlan(reply).ok
    THEN GenerateResolves(k, GenerateTestPlan(reply).suites)
    ELSE GenerateRejects(k)

GenerateSettles == \E k \in 1..Len(pending), reply \in Replies : GenerateSettled(k, reply)

GenerateMoreSettled(k, reply) ==
    IF GenerateMoreTestCases(reply).ok
    THEN GenerateMoreResolves(k, GenerateMoreTestCases(reply).cases)
    ELSE GenerateMoreRejects(k)

GenerateMoreSettles == \E k \in 1..Len(pending), reply \in Replies : GenerateMoreSettled(k, reply)

RegenerateSettled(k, reply) ==
    IF RegenerateTestCase(reply).ok
    THEN RegenerateResolves(k, RegenerateTestCase(reply).case)
    ELSE RegenerateRejects(k)

RegenerateSettles == \E k \in 1..Len(pending), reply \in Replies : RegenerateSettled(k, reply)

\* The App with the replies of the model in place of their results.
ServiceNext ==
    \/ Tick
    \/ HandleReset
    \/ HandleEditConfig
    \/ CancelConfig
    \/ DismissError
    \/ UpdateTestCase
    \/ SaveSession
    \/ LoadSession
    \/ DeleteSession
    \/ Analyze
    \/ Generate
    \/ GenerateMore
    \/ RegenerateCase
    \/ AnalyzeSettles
    \/ GenerateSettles
    \/ GenerateMoreSettles
    \/ RegenerateSettles

\* A run in which two backend calls were made and answered before.
ServiceInit == Mounted /\ started = 2 /\ Aside

ServiceSpec == ServiceInit /\ [][ServiceNext]_vars

----------------------------------------------------------------------------
(* TestDataRow of TestCaseCard and the test data cell of the exports.       *)
(* A string is the sequence of its characters; "*" stands for the bullet    *)
(* U+2022 the masks are made of.                                            *)

\* Longest value of a test data item, and most clicks on the show/hide button.
MaxLen == 6
MaxToggles == 3

Chars == {"a", "b"}

\* All strings over Chars of at most n characters.
Strings(n) == UNION { [1..k -> Chars] : k \in 0..n }

\* The keys of the items: "Password", "CC", "Acct", "User".
Keys ==
    { << "P", "a", "s", "s", "w", "o", "r", "d" >>, << "C", "C" >>,
      << "A", "c", "c", "t" >>, << "U", "s", "e", "r" >> }

Items == [key : Keys, value : Strings(MaxLen), isSensitive : BOOLEAN]

\* String.prototype.toLowerCase on the letters the keys are made of.
LowerChar(c) ==
    CASE c = "P" -> "p"
      [] c = "C" -> "c"
      [] c = "A" -> "a"
      [] c = "U" -> "u"
      [] OTHER -> c

ToLowerCase(str) == [k \in 1..Len(str) |-> LowerChar(str[k])]

\* str.includes(sub)
Includes(str, sub) ==
    \E k \in 0..(Len(str) - Len(sub)) : SubSeq(str, k + 1, k + Len(sub)) = sub

\* str.slice(-n)
SliceLast(str, n) == IF Len(str) <= n THEN str ELSE SubSeq(str, Len(str) - n + 1, Len(str))

\* str.slice(0, n)
SliceFirst(str, n) == IF Len(str) <= n THEN str ELSE SubSeq(str, 1, n)

Bullets(n) == [k \in 1..n |-> "*"]

GetPartiallyMaskedValue(key, value) ==
    LET lowerKey == ToLowerCase(key)
    IN  IF value = << >> THEN << >>
        ELSE IF \/ Includes(lowerKey, << "p", "a", "s", "s", "w", "o", "r", "d" >>)
                \/ Includes(lowerKey, << "s", "e", "c", "r", "e", "t" >>)
                \/ Includes(lowerKey, << "t", "o", "k", "e", "n" >>)
        THEN Bullets(8)
        ELSE IF \/ Includes(lowerKey, << "c", "a", "r", "d" >>)
                \/ Includes(lowerKey, << "c", "c" >>)
        THEN Bullets(4) \o << " " >> \o SliceLast(value, 4)
        ELSE IF Len(value) > 5
        THEN SliceFirst(value, 1) \o Bullets(4) \o SliceLast(value, 2)
        ELSE Bullets(6)

\* The text the value cell of the row shows.
RowText ==
    IF isVisible THEN item[1].value
    ELSE GetPartiallyMaskedValue(item[1].key, item[1].value)

\* A TestDataRow mounted for an item, in the App as mounted.
RowInit ==
    /\ Mounted
    /\ started = 0
    /\ item \in { Some(i) : i \in Items }
    /\ isVisible = ~item[1].isSensitive
    /\ toggles = 0
    /\ exported = Null
    /\ Offstage

\* The button with a fault: it reveals and never hides again.
ToggleVisibleOnce ==
    /\ item[1].isSensitive
    /\ toggles < MaxToggles
    /\ isVisible' = TRUE
    /\ toggles' = toggles + 1
    /\ UNCHANGED << item, exported >>
    /\ UNCHANGED exceptRow

\* The show/hide button, rendered for sensitive items only.
ToggleVisible ==
    /\ item[1].isSensitive
    /\ toggles < MaxToggles
    /\ isVisible' = ~isVisible
    /\ toggles' = toggles + 1
    /\ UNCHANGED << item, exported >>
    /\ UNCHANGED exceptRow

\* The test data cell an export writes for a case holding the item.
Export(surface, separator, quote) ==
    /\ exported' = Some([surface |-> surface,
                         text |-> quote \o item[1].key \o separator \o item[1].value \o quote])
    /\ UNCHANGED << item, isVisible, toggles >>
    /\ UNCHANGED exceptRow

ExportToPdf == Export("pdf", << ":", " " >>, << >>)

ExportToExcel == Export("xlsx", << ":", " " >>, << >>)

ExportToCsv == Export("csv", << "=" >>, << "\"" >>)

ExportToDocx == Export("docx", << ":", " " >>, << >>)

RowNext ==
    \/ ToggleVisible
    \/ ExportToPdf
    \/ ExportToExcel
    \/ ExportToCsv
    \/ ExportToDocx

RowSpec == RowInit /\ [][RowNext]_vars

----------------------------------------------------------------------------
(* The returns of the backend, as steps *)

Resolves(k) ==
    \/ \E result \in AnalysisResults : AnalyzeResolves(k, result)
    \/ \E suites \in PlanResponses : GenerateResolves(k, suites)
    \/ \E newCases \in MoreResponses : GenerateMoreResolves(k, newCases)
    \/ \E updatedCase \in RegenResponses : RegenerateResolves(k, updatedCase)

\* The session with the given id in a stringified collection, as a set.
Stored(saved, id) == { saved[j] : j \in { n \in 1..Len(saved) : saved[n].id = id } }

----------------------------------------------------------------------------
(* C1: single in-flight generation per suite *)

\* C1: for every suite index at most one generate-more call is in flight at any
\* time: a second begin(i) before complete(i) is refused, whatever was started
\* or completed for other suites in between.
C1_SingleInFlightPerSuite ==
    \A j, k \in 1..Len(pending) :
        (j # k /\ pending[j].kind = "more" /\ pending[k].kind = "more")
            => pending[j].suiteIndex # pending[k].suiteIndex

----------------------------------------------------------------------------
(* C2: the suites reported in flight *)

\* C2: at every moment the suites reported as generating are exactly the suites
\* with a generate-more call begun and not yet completed.
C2_ReportedEqualsInFlight == Reported = InFlight

----------------------------------------------------------------------------
(* C3: merge at completion *)

\* C3: when a case of suite i of the plan on display was replaced while a
\* generation for suite i was in flight, the completion leaves suite i with the
\* edited cases followed by the new cases, in memory and in the persisted session
\* the generation was requested for.
C3_MergesOntoEditedSuite ==
    [][\A k \in 1..Len(pending) : \A newCases \in MoreResponses :
          ( /\ GenerateMoreResolves(k, newCases)
            /\ testPlan # Null
            /\ pending[k].edited = testPlan[1].suites )
          => /\ testPlan' # Null
             /\ SuiteCases(heap', testPlan', pending[k].suiteIndex)
                  = SuiteCases(heap, testPlan, pending[k].suiteIndex) \o newCases
             /\ \A s \in Stored(storage', TargetId(pending[k])) :
                  /\ s.plan # Null
                  /\ s.plan[1].suites[pending[k].suiteIndex + 1].cases
                       = SuiteCases(heap, testPlan, pending[k].suiteIndex) \o newCases
      ]_vars

----------------------------------------------------------------------------
(* C4: a completion changes one suite of the current plan *)

\* C4: the completion of a generation for suite i changes only suite i of the plan
\* current at that moment: the plan on display keeps its identity and every other
\* suite keeps its cases.
C4_OnlyTheSuiteChanges ==
    [][\A k \in 1..Len(pending) : \A newCases \in MoreResponses :
          ( GenerateMoreResolves(k, newCases) /\ testPlan # Null )
          => /\ testPlan' # Null
             /\ testPlan'[1].websiteUrl = testPlan[1].websiteUrl
             /\ NumSuites(heap', testPlan') = NumSuites(heap, testPlan)
             /\ \A j \in 0..(NumSuites(heap, testPlan) - 1) :
                  j # pending[k].suiteIndex
                    => SuiteCases(heap', testPlan', j) = SuiteCases(heap, testPlan, j)
      ]_vars

----------------------------------------------------------------------------
(* C5: no stale session is written back *)

\* The fields the continuation of a call of the given kind produces.
KeepsOtherFields(kind, old, new) ==
    /\ new.id = old.id
    /\ new.name = old.name
    /\ new.url = old.url
    /\ kind # "generate" => /\ new.testData = old.testData
                            /\ new.artifactScope = old.artifactScope
                            /\ new.timestamp = old.timestamp
    /\ kind # "analyze" => new.requirements = old.requirements
    /\ kind = "analyze" => new.plan = old.plan

\* C5: the upsert a completing operation performs keeps every field value the
\* session has in the store at that moment, but for the fields the operation
\* itself produces.
C5_NoStaleWriteBack ==
    [][\A k \in 1..Len(pending) :
          Resolves(k)
          => \A j \in 1..Len(savedSessions) :
                savedSessions[j].id = TargetId(pending[k])
                  => \A n \in 1..Len(savedSessions') :
                        savedSessions'[n].id = savedSessions[j].id
                          => KeepsOtherFields(pending[k].kind, savedSessions[j],
                                              savedSessions'[n])
      ]_vars

----------------------------------------------------------------------------
(* C6: a generation in flight ends *)

\* The backend answers every call: a call in flight keeps its return enabled
\* until it is taken.
BackendReturns ==
    /\ WF_vars(AnalyzeReturns)
    /\ WF_vars(GenerateReturns)
    /\ WF_vars(GenerateMoreReturns)
    /\ WF_vars(RegenerateReturns)

\* A run in which one backend call was made and answered before.
FairInit == Mounted /\ started = 1 /\ Aside

FairSpec == FairInit /\ [][Next]_vars /\ BackendReturns

\* Suite i has a generate-more call in flight or is shown as generating.
Busy(i) == i \in InFlight \/ generatingMoreSuiteIndex = i

\* C6: every suite that becomes in flight eventually is idle again, whether its
\* call succeeded or failed, as long as every backend call returns.  Busy(i)
\* leads to ~Busy(i) exactly if ~Busy(i) holds again and again.
C6_InFlightEventuallyIdle == \A i \in 0..1 : []<>~Busy(i)

\* A generation has come back: no call in flight, nothing shown as generating,
\* and the new case is in a suite of the plan on display.
C6_Witness ==
    /\ testPlan # Null
    /\ InFlight = {}
    /\ generatingMoreSuiteIndex = NoIndex
    /\ \E i \in 0..(NumSuites(heap, testPlan) - 1) :
          \E c \in 1..Len(SuiteCases(heap, testPlan, i)) :
             SuiteCases(heap, testPlan, i)[c] = Case(2, 0)

----------------------------------------------------------------------------
(* C7: a failed generation *)

\* C7: when the call of a generate-more request fails, the suite is no longer
\* shown as generating, the plan in memory, the store and the persisted
\* collection are what they were before, the failure is shown, and the call is
\* not issued again.
C7_FailureLeavesPlan ==
    [][\A k \in 1..Len(pending) :
          GenerateMoreRejects(k)
          => /\ testPlan' = testPlan
             /\ PlanValue(heap', testPlan') = PlanValue(heap, testPlan)
             /\ heap' = heap
             /\ savedSessions' = savedSessions
             /\ storage' = storage
             /\ pending[k].suiteIndex \notin Reported'
             /\ alertMsg' = "Failed to generate more cases."
             /\ pending' = Remove(pending, k)
             /\ started' = started
      ]_vars

\* The failure of a generation is on screen, with a plan on display.
C7_Witness ==
    /\ alertMsg = "Failed to generate more cases."
    /\ testPlan # Null
    /\ generatingMoreSuiteIndex = NoIndex

----------------------------------------------------------------------------
(* C8: upsert *)

\* The step replaces the session at one position by a session of the same id.
ReplacedInPlace(old, new) ==
    /\ Len(new) = Len(old)
    /\ \E k \in 1..Len(old) :
          /\ new[k].id = old[k].id
          /\ \A j \in 1..Len(old) : j # k => new[j] = old[j]

\* The step puts a session of an id not in the store before all others.
Prepended(old, new) ==
    /\ Len(new) = Len(old) + 1
    /\ ~HasId(old, new[1].id)
    /\ \A j \in 1..Len(old) : new[j + 1] = old[j]

\* C8: every write of a session replaces the session of the same id where it
\* stands, all others and the length unchanged, or, when the id is not in the
\* store, puts the session first with all others in their order.
C8_UpsertReplacesOrPrepends ==
    [][(savedSessions' # savedSessions
          /\ \A k \in 1..Len(savedSessions) : ~HandleDeleteSession(savedSessions[k].id))
       => \/ ReplacedInPlace(savedSessions, savedSessions')
          \/ Prepended(savedSessions, savedSessions')
      ]_vars

\* A session was prepended before the stored one, and the stored one, now
\* second, was renamed where it stands.
C8_Witness ==
    /\ Len(savedSessions) = 2
    /\ savedSessions[1].id # 1
    /\ savedSessions[2].id = 1
    /\ savedSessions[2].name = "n1"

----------------------------------------------------------------------------
(* C9: the store and localStorage *)

\* C9: after every write or delete the collection in localStorage is the
\* collection in memory: same sessions, same field values, same order.
C9_StorageFollowsStore ==
    [][(savedSessions' # savedSessions \/ storage' # storage)
          => storage' = Stringify(heap', savedSessions')]_vars

\* The stored session was deleted after another one was created, and
\* localStorage holds what the store holds.
C9_Witness ==
    /\ Len(savedSessions) = 1
    /\ ~HasId(savedSessions, 1)
    /\ edits = 1
    /\ storage = Stringify(heap, savedSessions)

----------------------------------------------------------------------------
(* C10: a session ends by delete only *)

\* C10: a session in the store stays in the store under its id, as the session
\* of the same url, through every step but the delete of that id.
C10_DestroyedOnlyByDelete ==
    [][\A j \in 1..Len(savedSessions) :
          ~HandleDeleteSession(savedSessions[j].id)
          => \E n \in 1..Len(savedSessions') :
                /\ savedSessions'[n].id = savedSessions[j].id
                /\ savedSessions'[n].url = savedSessions[j].url
      ]_vars

----------------------------------------------------------------------------
(* C11: the timestamp of a session *)

\* C11: whenever a step changes the plan persisted for a session (generation,
\* case edit, case regeneration, cases appended) the session's timestamp
\* becomes the time of the step, and loading a session or resetting the view
\* changes no timestamp.
C11_TimestampFollowsContent ==
    [][\A j \in 1..Len(storage) : \A n \in 1..Len(storage') :
          storage'[n].id = storage[j].id
          => /\ storage'[n].plan # storage[j].plan => storage'[n].timestamp = clock
             /\ (LoadSession \/ HandleReset)
                   => storage'[n].timestamp = storage[j].timestamp
      ]_vars

----------------------------------------------------------------------------
(* C12: the url of a session *)

\* C12: the url stored under a session id never changes: in every step, a
\* session in the store before and after it under one id has one url.
C12_UrlImmutable ==
    [][\A j \in 1..Len(savedSessions) : \A n \in 1..Len(savedSessions') :
          savedSessions'[n].id = savedSessions[j].id
             => savedSessions'[n].url = savedSessions[j].url
      ]_vars

----------------------------------------------------------------------------
(* C13: the ids issued *)

\* The ids of the sessions of analyses in flight.
IssuedInFlight ==
    { pending[k].newSession[1].id : k \in { j \in 1..Len(pending) : pending[j].kind = "analyze" } }

\* C13: the id issued to a new session is the id of no session in the store
\* and of no session whose analysis is in flight, even when two sessions are
\* created within one tick of the clock.
C13_IssuedIdsUnique ==
    [][(\/ Analyze
        \/ (SaveSession /\ currentSessionId = NoId)
        \/ \E k \in 1..Len(savedSessions) :
              /\ savedSessions[k].plan = Null
              /\ savedSessions[k].requirements = NoText
              /\ HandleLoadSession(savedSessions[k]))
       => /\ ~HasId(savedSessions, currentSessionId')
          /\ currentSessionId' \notin IssuedInFlight
      ]_vars

----------------------------------------------------------------------------
(* C14: a case replacement touches one case *)

\* The step leaves plan P as the plan on display, with the same suites array,
\* and changes in it nothing but case j of suite i, which becomes c; the
\* suites arrays of all other plans are untouched.
OnlyCaseDiffers(P, i, j, c) ==
    LET ref == P[1].suites
    IN  /\ testPlan' = P
        /\ Len(heap') = Len(heap)
        /\ \A r \in 1..Len(heap) : r # ref => heap'[r] = heap[r]
        /\ Len(heap'[ref]) = Len(heap[ref])
        /\ \A k \in 1..Len(heap[ref]) : k # i + 1 => heap'[ref][k] = heap[ref][k]
        /\ Len(heap'[ref][i + 1].cases) = Len(heap[ref][i + 1].cases)
        /\ \A m \in 1..Len(heap[ref][i + 1].cases) :
              heap'[ref][i + 1].cases[m]
                 = IF m = j + 1 THEN c ELSE heap[ref][i + 1].cases[m]

\* C14: a case edit and a completed case regeneration yield the plan they were
\* given with only suites[i].cases[j] changed: every other suite is the very
\* suite it was, and every other case of suite i is unchanged.
C14_ReplaceCaseIsolated ==
    [][/\ \A i \in 0..1 : \A j \in 0..MaxAsync : \A rev \in EditRevs :
            ( /\ testPlan # Null
              /\ i < NumSuites(heap, testPlan)
              /\ j < Len(SuiteCases(heap, testPlan, i))
              /\ HandleUpdateTestCase(i, j, [SuiteCases(heap, testPlan, i)[j + 1]
                                                EXCEPT !.rev = rev]) )
            => OnlyCaseDiffers(testPlan, i, j,
                               [SuiteCases(heap, testPlan, i)[j + 1] EXCEPT !.rev = rev])
       /\ \A k \in 1..Len(pending) : \A updatedCase \in RegenResponses :
            RegenerateResolves(k, updatedCase)
            => OnlyCaseDiffers(pending[k].testPlan, pending[k].suiteIndex,
                               pending[k].caseIndex, updatedCase)
      ]_vars

\* A case was edited in a suite of two cases, the second one: the suite now
\* holds an untouched first case and the edited case, the other suite its one.
C14_Witness ==
    /\ testPlan # Null
    /\ edits = 1
    /\ \E i \in 0..1 :
          /\ Len(SuiteCases(heap, testPlan, i)) = 2
          /\ SuiteCases(heap, testPlan, i)[1].rev = 0
          /\ SuiteCases(heap, testPlan, i)[2].rev = 1
          /\ Len(SuiteCases(heap, testPlan, 1 - i)) = 1
          /\ SuiteCases(heap, testPlan, 1 - i)[1].rev = 0

----------------------------------------------------------------------------
(* C16: the ids of appended cases *)

\* C16: after every append the case ids within each suite of the plan on
\* display are pairwise distinct, whatever ids the backend returned.
C16_CaseIdsDistinct ==
    testPlan # Null
    => \A i \in 0..(NumSuites(heap, testPlan) - 1) :
          \A m, n \in 1..Len(SuiteCases(heap, testPlan, i)) :
             m # n => SuiteCases(heap, testPlan, i)[m].id # SuiteCases(heap, testPlan, i)[n].id

----------------------------------------------------------------------------
(* C15: an index the plan does not have *)

\* The case index of call k does not exist in the suite of the plan the call
\* writes to.
AbsentCase(k) ==
    pending[k].caseIndex >= Len(SuiteCases(heap, pending[k].testPlan, pending[k].suiteIndex))

\* C15: a case regeneration whose case index does not exist in the plan is not
\* silently carried out: when its call returns, no plan is changed, no case
\* list grows, and the failure is shown.
C15_AbsentIndexFails ==
    [][\A k \in 1..Len(pending) :
          ( /\ pending[k].kind = "regen"
            /\ AbsentCase(k)
            /\ \/ \E updatedCase \in RegenResponses : RegenerateResolves(k, updatedCase)
               \/ RegenerateRejects(k) )
          => /\ heap' = heap
             /\ alertMsg' = "Failed to regenerate case."
      ]_vars

----------------------------------------------------------------------------
(* C17: sensitive values on exported and rendered surfaces *)

\* The whole of a non-empty value is part of the text.
Discloses(text, value) == value # << >> /\ Includes(text, value)

\* C17: the value of a sensitive item is on no exported surface and, unless
\* the user has revealed it, not on the rendered row.
C17_SensitiveNeverPlain ==
    item[1].isSensitive
    => /\ exported # Null => ~Discloses(exported[1].text, item[1].value)
       /\ ~isVisible => ~Discloses(RowText, item[1].value)

----------------------------------------------------------------------------
(* C18: the masked row and its toggle *)

\* The text is a mask for the value: bullets, and not the value itself.
Masked(text, value) ==
    IF value = << >> THEN text = << >>
    ELSE text # value /\ Includes(text, << "*" >>)

\* C18: the row of a sensitive item shows a masked string before any click and
\* after every even number of clicks on the show/hide button, and no click
\* changes the item.
C18_MaskedByDefault ==
    /\ [](item[1].isSensitive
            => /\ isVisible <=> toggles % 2 = 1
               /\ ~isVisible => Masked(RowText, item[1].value))
    /\ [][ToggleVisible => item' = item]_vars

\* A sensitive item of a long value was revealed and hidden again: the row
\* shows the first character, bullets and the last two characters.
C18_Witness ==
    /\ item[1].isSensitive
    /\ item[1].key = << "U", "s", "e", "r" >>
    /\ Len(item[1].value) = 6
    /\ toggles = 2
    /\ ~isVisible
    /\ RowText = << item[1].value[1], "*", "*", "*", "*", item[1].value[5], item[1].value[6] >>

----------------------------------------------------------------------------
(* C19: replies of the backend that are no plan and no cases *)

\* The objects of a reply that are cases.
WellFormed(cases) == \A j \in 1..Len(cases) : cases[j].id # 0

\* The text of the reply holds no list of cases.
NoCases(reply) ==
    reply.end = "text"
    /\ ~(reply.text.doc.kind \in {"array", "wrapped"} /\ WellFormed(reply.text.doc.cases))

\* The text of the reply holds no case.
NoCase(reply) ==
    reply.end = "text"
    /\ ~(reply.text.doc.cases # << >> /\ reply.text.doc.kind \in {"array", "wrapped", "object"}
         /\ reply.text.doc.cases[1].id # 0)

\* The text of the reply holds no plan.
NoPlan(reply) == reply.end = "text" /\ reply.text.doc.kind # "plan"

\* The plan in memory, the store and the persisted collection are untouched.
StateUntouched ==
    /\ testPlan' = testPlan
    /\ heap' = heap
    /\ savedSessions' = savedSessions
    /\ storage' = storage

\* C19: when the text of the backend's reply to a plan generation, to a
\* generate-more request or to a case regeneration is not a plan, a list of
\* cases or a case respectively, the failure is shown to the user and the plan
\* in memory, the store and the persisted collection stay what they were.
C19_MalformedReplyRejected ==
    [][\A k \in 1..Len(pending), reply \in Replies :
          /\ (NoPlan(reply) /\ GenerateSettled(k, reply))
             => (StateUntouched /\ error' = "Failed to generate test plan.")
          /\ (NoCases(reply) /\ GenerateMoreSettled(k, reply))
             => (StateUntouched /\ alertMsg' = "Failed to generate more cases.")
          /\ (NoCase(reply) /\ RegenerateSettled(k, reply))
             => (StateUntouched /\ alertMsg' = "Failed to regenerate case.")
      ]_vars

----------------------------------------------------------------------------
(* C20: a failed analysis *)

\* The analysis of the site did not produce requirements: no API key, the
\* request failed, the response was empty, or its text is no JSON.
AnalysisFailed(reply) == reply.end # "text" \/ ~ExtractJson(reply.text).ok

\* C20: when the analysis of a site fails, the session handleAnalyze created,
\* if it is still in the store, stays there with requirements absent or
\* empty, and the flow is back at IDLE.
C20_AnalysisFailureReturnsToIdle ==
    [][\A k \in 1..Len(pending), reply \in Replies :
          (AnalysisFailed(reply) /\ AnalyzeSettled(k, reply))
          => /\ state' = "IDLE"
             /\ \A s \in Stored(savedSessions, TargetId(pending[k])) :
                   \E t \in Stored(savedSessions', TargetId(pending[k])) :
                       t.requirements \in {NoText, Fallback}
      ]_vars

----------------------------------------------------------------------------
(* C21: a write to localStorage that fails *)

\* An error is on screen after the step.
Surfaced == error' # NoText \/ alertMsg' # NoText

\* C21: when localStorage.setItem throws during a delete, a rename or the
\* creation of a session, the change is in the store in memory all the same,
\* the handler does the rest of its work, App stays on screen, and an error
\* is shown.
C21_WriteFailureSurfaced ==
    [][quotaExceeded =>
          /\ \A k \in 1..Len(savedSessions) :
                HandleDeleteSession(savedSessions[k].id)
                => /\ savedSessions' = DeleteFilter(savedSessions, savedSessions[k].id)
                   /\ currentSessionId = savedSessions[k].id
                      => (currentSessionId' = NoId /\ state' = "IDLE")
                   /\ mounted'
                   /\ Surfaced
          /\ \A name \in UserNames :
                (HandleSaveSession(name) /\ Find(savedSessions, currentSessionId) # Null)
                => /\ \E s \in Stored(savedSessions', currentSessionId) : s.name = name
                   /\ mounted'
                   /\ Surfaced
          /\ \A input \in AnalyzeInputs :
                HandleAnalyze(input[1], input[2])
                => /\ Stored(savedSessions', clock) # {}
                   /\ mounted'
                   /\ Surfaced
      ]_vars

----------------------------------------------------------------------------
(* C22: the filter and the sort of the display *)

----------------------------------------------------------------------------
(* C26: the index of a displayed row *)

\* The stored list differs from the old one in one position, which held the
\* case of the row and now holds the updated case.
ReplacesRow(old, new, row, updatedCase) ==
    \E j \in 1..Len(old) : old[j] = row /\ new = [old EXCEPT ![j] = updatedCase]

\* C26: under any filter and sort order, the edit of a displayed row replaces
\* in the stored suite the case the row shows and no other, and the regenerate
\* modal opened from a row holds the stored position of the case the row shows.
C26_RowIndexIsStoredIndex ==
    [][/\ \A suiteIndex \in 0..1, cIdx \in 0..MaxAsync, rev \in EditRevs :
            ( /\ testPlan # Null
              /\ suiteIndex < NumSuites(heap, testPlan)
              /\ cIdx < Len(Rows(suiteIndex))
              /\ HandleUpdateTestCase(suiteIndex, cIdx,
                    [Rows(suiteIndex)[cIdx + 1] EXCEPT !.rev = rev]) )
            => ReplacesRow(SuiteCases(heap, testPlan, suiteIndex),
                           SuiteCases(heap', testPlan, suiteIndex),
                           Rows(suiteIndex)[cIdx + 1],
                           [Rows(suiteIndex)[cIdx + 1] EXCEPT !.rev = rev])
       /\ OpenRegenerateRow
            => SuiteCases(heap, testPlan, selectedCaseInfo'[1].suiteIdx)
                                                [selectedCaseInfo'[1].caseIdx + 1]
               = Rows(selectedCaseInfo'[1].suiteIdx)[selectedCaseInfo'[1].caseIdx + 1]
      ]_vars

----------------------------------------------------------------------------
(* C23: whose sessions are listed *)

----------------------------------------------------------------------------
(* C24: a deleted session *)

\* C24: the return of a backend call started for a session that is no longer
\* in the store puts no session of that id back, in memory or in localStorage.
C24_DeletedStaysDeleted ==
    [][\A k \in 1..Len(pending) :
          ( /\ TargetId(pending[k]) # NoId
            /\ Stored(savedSessions, TargetId(pending[k])) = {}
            /\ Stored(storage, TargetId(pending[k])) = {}
            /\ Resolves(k) )
          => /\ Stored(savedSessions', TargetId(pending[k])) = {}
             /\ Stored(storage', TargetId(pending[k])) = {}
      ]_vars

----------------------------------------------------------------------------
(* C25: the plan on display and the current session *)

\* C25: whenever a plan is displayed and a session is current, the plan on
\* display is the plan the store holds for the current session.
C25_DisplayedPlanIsCurrent ==
    (state = "DISPLAY" /\ testPlan # Null /\ currentSessionId # NoId)
    => \A s \in Stored(savedSessions, currentSessionId) :
          PlanValue(heap, s.plan) = PlanValue(heap, testPlan)

----------------------------------------------------------------------------
(* C27: what the render shows *)

\* C27: in state CONFIGURING there are requirements to show the form for, and
\* in state DISPLAY there is a plan to display.
C27_NeverBlank ==
    /\ state = "CONFIGURING" => requirements # NoText
    /\ state = "DISPLAY" => testPlan # Null

----------------------------------------------------------------------------
(* C28: loading a session *)

\* C28: loading a saved session, whatever it holds, leaves the session
\* collection in memory and the persisted collection as they were.
C28_LoadIsNavigation ==
    [][\A k \in 1..Len(savedSessions) :
          HandleLoadSession(savedSessions[k])
          => /\ savedSessions' = savedSessions
             /\ storage' = storage
             /\ heap' = heap
      ]_vars

----------------------------------------------------------------------------
(* C29: the masked form of a sensitive value *)

\* C29: for a sensitive item with a non-empty value, whatever its key and the
\* length of its value, the masked string differs from the value and does not
\* contain the whole value.
C29_MaskHidesValue ==
    item # Null =>
        LET masked == GetPartiallyMaskedValue(item[1].key, item[1].value)
        IN  (item[1].isSensitive /\ item[1].value # << >>)
            => /\ masked # item[1].value
               /\ ~Includes(masked, item[1].value)

----------------------------------------------------------------------------
(* C30: who AuthScreen logs in *)

\* The step is a call of onLogin.
CallsOnLogin == onLogin' # onLogin

\* C30: onLogin is called only from the credentials step with the
\* administrator's email and password, or from the verification step in LOGIN
\* mode when the entered code is the code generated for the attempt and email
\* and password are those of a stored user; submitting a wrong code neither
\* calls onLogin nor changes the step; and completing a registration stores the
\* user and returns to LOGIN and CREDENTIALS without a call of onLogin.
C30_WhoLogsIn ==
    [][/\ CallsOnLogin =>
            \/ /\ step = "CREDENTIALS"
               /\ email = AdminEmail
               /\ password = AdminPassword
               /\ onLogin' = Append(onLogin, [email |-> AdminEmail, role |-> "ADMIN"])
            \/ /\ step = "VERIFICATION"
               /\ mode = "LOGIN"
               /\ verificationCode \in Codes
               /\ userEnteredCode = verificationCode
               /\ \E k \in 1..Len(users) :
                     /\ users[k].email = email
                     /\ users[k].password = password
                     /\ onLogin' = Append(onLogin, [email |-> email, role |-> users[k].role])
       /\ (HandleVerificationSubmit /\ userEnteredCode # verificationCode)
            => ~CallsOnLogin /\ step' = step /\ mode' = mode /\ users' = users
       /\ (HandleVerificationSubmit /\ userEnteredCode = verificationCode
             /\ mode = "REGISTER")
            => /\ users' = Append(users, [email |-> email, password |-> password,
                                          role |-> "USER"])
               /\ mode' = "LOGIN"
               /\ step' = "CREDENTIALS"
               /\ ~CallsOnLogin
      ]_vars

\* A registered user has logged in with the code of the attempt.
C30_Witness ==
    /\ step = "VERIFICATION"
    /\ mode = "LOGIN"
    /\ userEnteredCode = verificationCode
    /\ \E k \in 1..Len(onLogin) : onLogin[k].role = "USER"
    /\ \E k \in 1..Len(users) : users[k].email = email /\ users[k].password = password

============================================================================
